---- MODULE Spec2Model ----
(***************************************************************************)
(* Model of the zodiac calculator server (server/index.js): the input      *)
(* validator, the zodiac classifier, the JSON file store and the two HTTP   *)
(* handlers that read and write it; and of the page (src/App.tsx) that      *)
(* submits to them and shows the recent history.                            *)
(*                                                                          *)
(* Strings are sequences of one-character strings.  A request body field    *)
(* is a record [t, ...] carrying its JavaScript type, so that the           *)
(* truthiness and typeof tests of the code can be evaluated.  A date string *)
(* that has the shape YYYY<sep>MM<sep>DD is kept as its parts (sep, y, m,   *)
(* d); every other string is plain text.  An instant is a number of hours   *)
(* on the UTC time line (day number * 24 + hour).                           *)
(***************************************************************************)
EXTENDS Integers, Sequences, FiniteSets, TLC

VARIABLES
    store,      \* content of DATA_FILE: the persisted sequence of entries
    req,        \* req[s]: the handler invocation running in slot s
    lastResp,   \* the HTTP response the last step sent, NoResp if it sent none
    clock,      \* Date.now(), in ticks
    posts,      \* validated submissions accepted so far
    faults,     \* failures of the file system and of the network so far
    call,       \* arguments of a call of validateInput / calculateZodiacSign
    ret,        \* what the call returned
    client,     \* the React state of App (src/App.tsx) and where handleSubmit is
    net         \* net[r]: the fetch r of the client that is in flight

vars == <<store, req, lastResp, clock, posts, faults, call, ret, client, net>>

(***************************************************************************)
(* Bounds of the model.                                                    *)
(***************************************************************************)
MaxShort == 3       \* every string over Alphabet up to this length is a name input
MaxPosts == 2       \* validated submissions accepted in one behaviour
MaxFaults == 1      \* file system and network failures in one behaviour
InitialFill == 99   \* entries of the data file an earlier run left behind
NumSlots == 2       \* handler invocations in flight at once

(***************************************************************************)
(* Characters and strings.                                                 *)
(***************************************************************************)
Letters == {"a", "Z"}
Whitespace == {" ", "\t"}
Alphabet == Letters \cup Whitespace \cup {"-", "'", "1", "<"}

\* /^[a-zA-Z\s'-]+$/ : one character of the class
NameClass(c) == c \in Letters \/ c \in Whitespace \/ c = "'" \/ c = "-"

RECURSIVE TrimLeft(_)
TrimLeft(s) ==
    IF s # <<>> /\ Head(s) \in Whitespace THEN TrimLeft(Tail(s)) ELSE s

RECURSIVE TrimRight(_)
TrimRight(s) ==
    IF s # <<>> /\ s[Len(s)] \in Whitespace
    THEN TrimRight(SubSeq(s, 1, Len(s) - 1)) ELSE s

\* String.prototype.trim
Trim(s) == TrimRight(TrimLeft(s))

\* the grave accent U+0060, which the lexer does not take inside a string
Backtick == "U+0060"

\* validator.escape: one character
EscapeChar(c) ==
    CASE c = "&" -> <<"&", "a", "m", "p", ";">>
      [] c = "\"" -> <<"&", "q", "u", "o", "t", ";">>
      [] c = "'" -> <<"&", "#", "x", "2", "7", ";">>
      [] c = "<" -> <<"&", "l", "t", ";">>
      [] c = ">" -> <<"&", "g", "t", ";">>
      [] c = "/" -> <<"&", "#", "x", "2", "F", ";">>
      [] c = "\\" -> <<"&", "#", "x", "5", "C", ";">>
      [] c = Backtick -> <<"&", "#", "9", "6", ";">>
      [] OTHER -> <<c>>

RECURSIVE Escape(_)
Escape(s) == IF s = <<>> THEN <<>> ELSE EscapeChar(Head(s)) \o Escape(Tail(s))

(***************************************************************************)
(* JavaScript values of the two body fields.                               *)
(***************************************************************************)
Undefined == [t |-> "undefined", kind |-> "none", s |-> <<>>, n |-> 0,
              sep |-> "-", y |-> 0, m |-> 0, d |-> 0]
Num(v) == [Undefined EXCEPT !.t = "number", !.n = v]
Str(chars) == [Undefined EXCEPT !.t = "string", !.kind = "text", !.s = chars]
DateStr(sp, yy, mm, dd) ==
    [Undefined EXCEPT !.t = "string", !.kind = "ymd", !.sep = sp,
                      !.y = yy, !.m = mm, !.d = dd]

\* ToBoolean(v): undefined, 0 and "" are falsy
Truthy(v) ==
    CASE v.t = "undefined" -> FALSE
      [] v.t = "number" -> v.n # 0
      [] OTHER -> v.kind = "ymd" \/ v.s # <<>>

(***************************************************************************)
(* Calendar.                                                               *)
(***************************************************************************)
IsLeap(y) == (y % 4 = 0 /\ y % 100 # 0) \/ y % 400 = 0

DaysInMonth(y, m) ==
    CASE m \in {4, 6, 9, 11} -> 30
      [] m = 2 -> IF IsLeap(y) THEN 29 ELSE 28
      [] OTHER -> 31

RECURSIVE DaysBeforeMonth(_, _)
DaysBeforeMonth(y, m) ==
    IF m = 1 THEN 0 ELSE DaysBeforeMonth(y, m - 1) + DaysInMonth(y, m - 1)

\* day number of y-m-d in the proleptic Gregorian calendar; d may overflow the
\* month, as in the Date(year, monthIndex, day) constructor
DaysFromCivil(y, m, d) ==
    365 * (y - 1) + ((y - 1) \div 4) - ((y - 1) \div 100) + ((y - 1) \div 400)
        + DaysBeforeMonth(y, m) + d

\* the calendar day before y-m-d, as <<month, day>>
PrevMonthDay(y, m, d) ==
    IF d > 1 THEN <<m, d - 1>>
    ELSE IF m > 1 THEN <<m - 1, DaysInMonth(y, m - 1)>>
    ELSE <<12, 31>>

\* validator.isDate(str), default options: YYYY/MM/DD with "/" or "-", a real day
IsDate(v) ==
    /\ v.kind = "ymd"
    /\ v.m \in 1..12
    /\ v.d \in 1..DaysInMonth(v.y, v.m)

\* new Date(str).getTime() in hours: the ISO form is UTC midnight, the
\* slash form is local midnight
ParseDate(v, tz) ==
    IF v.sep = "-" THEN DaysFromCivil(v.y, v.m, v.d) * 24
    ELSE DaysFromCivil(v.y, v.m, v.d) * 24 - tz

\* <<getMonth() + 1, getDate()>> of new Date(str) in the zone tz
LocalMonthDay(v, tz) ==
    IF v.sep = "-" /\ tz < 0 THEN PrevMonthDay(v.y, v.m, v.d) ELSE <<v.m, v.d>>

(***************************************************************************)
(* The environment of a call: the zone offset tz (hours east of UTC) and    *)
(* the local wall clock reading y-m-d h:00 of new Date().                   *)
(***************************************************************************)
Now(env) == DaysFromCivil(env.y, env.m, env.d) * 24 + env.h - env.tz

(***************************************************************************)
(* validateInput                                                           *)
(***************************************************************************)
MinNameLen == 2
MaxNameLen == 50
MaxAgeYears == 120

MsgNameRequired == "Name is required"
MsgNameShort == "Name must be at least 2 characters long"
MsgNameLong == "Name must be less than 50 characters"
MsgNameChars == "Name can only contain letters, spaces, hyphens, and apostrophes"
MsgDateRequired == "Date of birth is required"
MsgDateFormat == "Invalid date format"
MsgDateFuture == "Date of birth cannot be in the future"
MsgDateOld == "Date of birth cannot be more than 120 years ago"

NameMessages == {MsgNameRequired, MsgNameShort, MsgNameLong, MsgNameChars}
DateMessages == {MsgDateRequired, MsgDateFormat, MsgDateFuture, MsgDateOld}

\* variant: every name rule is tested on its own and every violation pushed
NameErrorsAll(name) ==
    IF ~Truthy(name) \/ name.t # "string" THEN <<MsgNameRequired>>
    ELSE (IF Len(Trim(name.s)) < MinNameLen THEN <<MsgNameShort>> ELSE <<>>)
         \o (IF Len(Trim(name.s)) > MaxNameLen THEN <<MsgNameLong>> ELSE <<>>)
         \o (IF \E i \in 1..Len(Trim(name.s)) : ~NameClass(Trim(name.s)[i])
             THEN <<MsgNameChars>> ELSE <<>>)

\* the messages the if / else-if chain over the name pushes
NameErrors(name) ==
    IF ~Truthy(name) \/ name.t # "string" THEN <<MsgNameRequired>>
    ELSE IF Len(Trim(name.s)) < MinNameLen THEN <<MsgNameShort>>
    ELSE IF Len(Trim(name.s)) > MaxNameLen THEN <<MsgNameLong>>
    ELSE IF \E i \in 1..Len(Trim(name.s)) : ~NameClass(Trim(name.s)[i])
         THEN <<MsgNameChars>>
    ELSE <<>>

\* the messages the if / else-if chain over the date of birth pushes
DateErrors(dateOfBirth, env) ==
    IF ~Truthy(dateOfBirth) \/ dateOfBirth.t # "string" THEN <<MsgDateRequired>>
    ELSE IF ~IsDate(dateOfBirth) THEN <<MsgDateFormat>>
    ELSE LET birthDate == ParseDate(dateOfBirth, env.tz)
             today == Now(env)
             hundredYearsAgo ==
                 DaysFromCivil(env.y - MaxAgeYears, env.m, env.d) * 24 - env.tz
         IN  IF birthDate > today THEN <<MsgDateFuture>>
             ELSE IF birthDate < hundredYearsAgo THEN <<MsgDateOld>>
             ELSE <<>>

\* dateOfBirth.trim()
TrimValue(v) == IF v.kind = "ymd" THEN v ELSE Str(Trim(v.s))

Threw == [threw |-> TRUE, isValid |-> FALSE, errors |-> <<>>,
          sanitizedName |-> <<>>, sanitizedDate |-> Str(<<>>)]

\* name.trim() / dateOfBirth.trim() in the return statement is a TypeError
\* for a truthy value that is no string
validateInput(name, dateOfBirth, env) ==
    IF (Truthy(name) /\ name.t # "string")
         \/ (Truthy(dateOfBirth) /\ dateOfBirth.t # "string")
    THEN Threw
    ELSE LET errors == NameErrors(name) \o DateErrors(dateOfBirth, env)
         IN  [threw |-> FALSE,
              isValid |-> Len(errors) = 0,
              errors |-> errors,
              sanitizedName |-> IF Truthy(name) THEN Escape(Trim(name.s)) ELSE <<>>,
              sanitizedDate |-> IF Truthy(dateOfBirth) THEN TrimValue(dateOfBirth)
                                ELSE Str(<<>>)]

(***************************************************************************)
(* calculateZodiacSign                                                     *)
(***************************************************************************)
Range(sg, st, en) == [sign |-> sg, start |-> st, end |-> en]

zodiacSigns ==
    << Range("Capricorn", <<12, 22>>, <<1, 19>>),
       Range("Aquarius", <<1, 20>>, <<2, 18>>),
       Range("Pisces", <<2, 19>>, <<3, 20>>),
       Range("Aries", <<3, 21>>, <<4, 19>>),
       Range("Taurus", <<4, 20>>, <<5, 20>>),
       Range("Gemini", <<5, 21>>, <<6, 20>>),
       Range("Cancer", <<6, 21>>, <<7, 22>>),
       Range("Leo", <<7, 23>>, <<8, 22>>),
       Range("Virgo", <<8, 23>>, <<9, 22>>),
       Range("Libra", <<9, 23>>, <<10, 22>>),
       Range("Scorpio", <<10, 23>>, <<11, 21>>),
       Range("Sagittarius", <<11, 22>>, <<12, 21>>) >>

\* variant: the start day of a range is excluded
RangeMatchesAfterStart(zodiac, month, day) ==
    LET startMonth == zodiac.start[1]
        startDay == zodiac.start[2]
        endMonth == zodiac.end[1]
        endDay == zodiac.end[2]
    IN  IF startMonth > endMonth
        THEN (month = startMonth /\ day > startDay)
                 \/ (month = endMonth /\ day <= endDay)
        ELSE (month = startMonth /\ day > startDay)
                 \/ (month = endMonth /\ day <= endDay)
                 \/ (month > startMonth /\ month < endMonth)

\* the test of one range in the loop body
RangeMatches(zodiac, month, day) ==
    LET startMonth == zodiac.start[1]
        startDay == zodiac.start[2]
        endMonth == zodiac.end[1]
        endDay == zodiac.end[2]
    IN  IF startMonth > endMonth
        THEN (month = startMonth /\ day >= startDay)
                 \/ (month = endMonth /\ day <= endDay)
        ELSE (month = startMonth /\ day >= startDay)
                 \/ (month = endMonth /\ day <= endDay)
                 \/ (month > startMonth /\ month < endMonth)

\* the for loop from range i on: the first range that matches, else 'Unknown'
RECURSIVE SignFrom(_, _, _)
SignFrom(i, month, day) ==
    IF i > Len(zodiacSigns) THEN "Unknown"
    ELSE IF RangeMatches(zodiacSigns[i], month, day) THEN zodiacSigns[i].sign
    ELSE SignFrom(i + 1, month, day)

calculateZodiacSign(dateString, tz) ==
    LET md == LocalMonthDay(dateString, tz)
    IN  SignFrom(1, md[1], md[2])

(***************************************************************************)
(* The entry store and the HTTP handlers.                                  *)
(*                                                                          *)
(* A handler runs in a slot; between two awaits it runs without             *)
(* interruption (one event loop), so a handler is cut into steps at its     *)
(* awaits: the file is read at the step that ends `await readData()`, and   *)
(* written at the step that ends `await writeData(data)`.  fs.readFile      *)
(* and JSON.parse may fail, and so may fs.writeFile; a failed write leaves  *)
(* the file as it was.  The rate limiter, CORS and helmet are not modelled. *)
(***************************************************************************)
MaxEntries == 100
RecentCount == 10

Slots == 1..NumSlots

\* the zone and wall clock of the server process
ServerEnv == [tz |-> 0, y |-> 2026, m |-> 11, d |-> 3, h |-> 12]

Body(nm, dob) == [name |-> nm, dateOfBirth |-> dob]
NoBody == Body(Undefined, Undefined)
ValidBody == Body(Str(<<"Z", "'", "a">>), DateStr("-", 1990, 3, 21))
\* the request bodies (req.body) the clients send
Bodies ==
    { ValidBody,
      Body(Str(<<"a">>), DateStr("-", 1990, 3, 21)),
      Body(Num(42), DateStr("-", 1990, 3, 21)),
      NoBody }

\* fields kept for the record: ioFailed, whether a file operation of this
\* request failed; overlapped, the outcomes (entry, status) of the POSTs that
\* completed after this request read the file and before it wrote it
Idle == [pc |-> "idle", kind |-> "none", body |-> NoBody, entry |-> <<>>,
         data |-> <<>>, ioFailed |-> FALSE, overlapped |-> {}]

\* no response was sent by the last step
NoResp == [kind |-> "none", slot |-> 0, status |-> 0, success |-> FALSE,
           error |-> "", details |-> <<>>, result |-> <<>>, entries |-> <<>>,
           body |-> NoBody, entry |-> <<>>, ioFailed |-> FALSE,
           overlapped |-> {}]

Range_(seq) == {seq[i] : i \in 1..Len(seq)}

RECURSIVE Reverse(_)
Reverse(seq) ==
    IF seq = <<>> THEN <<>> ELSE Append(Reverse(Tail(seq)), Head(seq))

\* data.slice(-n)
SliceLast(data, n) ==
    IF Len(data) <= n THEN data ELSE SubSeq(data, Len(data) - n + 1, Len(data))

\* readData: the parsed file, or [] when reading or parsing failed
readData(ok) == IF ok THEN store ELSE <<>>

\* variant: the splice leaves one entry too many
SpliceOneShort(data) ==
    IF Len(data) > MaxEntries
    THEN SubSeq(data, Len(data) - MaxEntries, Len(data))
    ELSE data

\* if (data.length > 100) data.splice(0, data.length - 100)
Splice(data) ==
    IF Len(data) > MaxEntries
    THEN SubSeq(data, Len(data) - MaxEntries + 1, Len(data))
    ELSE data

\* variant: the new entry is appended to the file as it is now
WrittenFileAppended(current, data) == Append(current, data[Len(data)])

\* fs.writeFile(DATA_FILE, JSON.stringify(data)): the new content of the file
WrittenFile(current, data) == data

\* data.slice(-10).reverse()
recentEntries(data) == Reverse(SliceLast(data, RecentCount))

\* the entry object of a validated submission
NewEntry(validation, tz, now) ==
    [id |-> now,
     name |-> validation.sanitizedName,
     dateOfBirth |-> validation.sanitizedDate,
     zodiacSign |-> calculateZodiacSign(validation.sanitizedDate, tz),
     timestamp |-> now]

ResultOf(entry) ==
    [name |-> entry.name, dateOfBirth |-> entry.dateOfBirth,
     zodiacSign |-> entry.zodiacSign]

\* one more failure of the file system may happen
MayFail == faults < MaxFaults

\* a new handler invocation takes the first free slot
FreeSlot(s) ==
    /\ req[s].pc = "idle"
    /\ \A t \in Slots : t < s => req[t].pc # "idle"

PureCall == <<call, ret>>

\* POST /api/calculate up to `await readData()`: validation, 400 on failure,
\* 500 when validateInput throws, else the entry is built
PostArrive(s, body) ==
    /\ FreeSlot(s)
    /\ LET validation == validateInput(body.name, body.dateOfBirth, ServerEnv)
       IN  IF validation.threw
           THEN /\ lastResp' = [NoResp EXCEPT !.kind = "POST", !.slot = s,
                                   !.status = 500, !.body = body,
                                   !.error = "Internal server error"]
                /\ UNCHANGED <<req, clock, posts>>
           ELSE IF ~validation.isValid
           THEN /\ lastResp' = [NoResp EXCEPT !.kind = "POST", !.slot = s,
                                   !.status = 400, !.body = body,
                                   !.error = "Validation failed",
                                   !.details = validation.errors]
                /\ UNCHANGED <<req, clock, posts>>
           ELSE /\ posts < MaxPosts
                /\ posts' = posts + 1
                /\ clock' = clock + 1
                /\ req' = [req EXCEPT ![s] =
                       [Idle EXCEPT !.pc = "read", !.kind = "POST", !.body = body,
                           !.entry = <<NewEntry(validation, ServerEnv.tz, clock + 1)>>]]
                /\ lastResp' = NoResp
    /\ UNCHANGED <<store, faults, PureCall>>

\* readData returns; data.push(entry); the splice; writeData is called
PostRead(s, ok) ==
    /\ req[s].pc = "read" /\ req[s].kind = "POST"
    /\ ok \/ MayFail
    /\ faults' = IF ok THEN faults ELSE faults + 1
    /\ req' = [req EXCEPT ![s].pc = "write",
                          ![s].data = Splice(Append(readData(ok), req[s].entry[1])),
                          ![s].ioFailed = ~ok]
    /\ lastResp' = NoResp
    /\ UNCHANGED <<store, clock, posts, PureCall>>

\* writeData returns or throws; the success response, or 500 from the catch
PostWrite(s, ok) ==
    /\ req[s].pc = "write"
    /\ ok \/ MayFail
    /\ faults' = IF ok THEN faults ELSE faults + 1
    /\ store' = IF ok THEN WrittenFile(store, req[s].data) ELSE store
    /\ req' = [t \in Slots |->
                  IF t = s THEN Idle
                  ELSE IF req[t].pc = "write"
                       THEN [req[t] EXCEPT !.overlapped = @ \cup
                               {[entry |-> req[s].entry[1],
                                 status |-> IF ok THEN 200 ELSE 500]}]
                       ELSE req[t]]
    /\ lastResp' =
           IF ok
           THEN [NoResp EXCEPT !.kind = "POST", !.slot = s, !.status = 200,
                    !.success = TRUE, !.body = req[s].body,
                    !.result = <<ResultOf(req[s].entry[1])>>,
                    !.entry = req[s].entry, !.ioFailed = req[s].ioFailed,
                    !.overlapped = req[s].overlapped]
           ELSE [NoResp EXCEPT !.kind = "POST", !.slot = s, !.status = 500,
                    !.body = req[s].body, !.error = "Internal server error",
                    !.entry = req[s].entry, !.ioFailed = TRUE,
                    !.overlapped = req[s].overlapped]
    /\ UNCHANGED <<clock, posts, PureCall>>

\* GET /api/entries up to `await readData()`
GetArrive(s) ==
    /\ FreeSlot(s)
    /\ req' = [req EXCEPT ![s] = [Idle EXCEPT !.pc = "read", !.kind = "GET"]]
    /\ lastResp' = NoResp
    /\ UNCHANGED <<store, clock, posts, faults, PureCall>>

\* readData returns; the last ten entries, most recent first, are sent
GetRead(s, ok) ==
    /\ req[s].pc = "read" /\ req[s].kind = "GET"
    /\ ok \/ MayFail
    /\ faults' = IF ok THEN faults ELSE faults + 1
    /\ req' = [req EXCEPT ![s] = Idle]
    /\ lastResp' = [NoResp EXCEPT !.kind = "GET", !.slot = s, !.status = 200,
                       !.success = TRUE, !.ioFailed = ~ok,
                       !.entries = recentEntries(readData(ok))]
    /\ UNCHANGED <<store, clock, posts, PureCall>>

(***************************************************************************)
(* The client (src/App.tsx): its React state and its fetches.              *)
(***************************************************************************)
Client == <<client, net>>

\* the fetches of the client: fetchRecentEntries called by the mount effect,
\* the POST of handleSubmit, fetchRecentEntries called by handleSubmit
Requests == {"mount", "post", "refresh"}

\* st: "none", no such fetch is pending; "sending", fetch was called;
\* "atServer", the handler invocation in slot `slot` works on it; "responded",
\* the response is on its way back; "failed", the fetch promise rejected
NoFetch == [st |-> "none", slot |-> 0, body |-> NoBody, resp |-> NoResp]

\* the value of the form inputs: always strings
EmptyForm == Body(Str(<<>>), Str(<<>>))
NameInputs == {Str(<<"Z", "'", "a">>), Str(<<"a">>)}
DateInputs == {DateStr("-", 1990, 3, 21)}

MsgNetworkError == "Network error. Please check if the server is running."
MsgCalculateFailed == "Failed to calculate zodiac sign"

\* the useState initial values; pc is the await handleSubmit is suspended at,
\* timers the pending setTimeout callbacks
ClientInitial ==
    [formData |-> EmptyForm, result |-> <<>>, recentEntries |-> <<>>,
     loading |-> FALSE, error |-> "", showSuccess |-> FALSE,
     pc |-> "idle", timers |-> 0]

\* no page is open
ClientAtRest ==
    /\ client = ClientInitial
    /\ net = [r \in Requests |-> NoFetch]

NoCall == [op |-> "none", name |-> Undefined, dateOfBirth |-> Undefined,
           env |-> ServerEnv]
NoRet == [op |-> "none", validation |-> Threw, sign |-> ""]

\* the document that n validated submissions, handled one after the other
\* at the ticks 1..n, leave in the file
Submitted(n) ==
    LET validation == validateInput(ValidBody.name, ValidBody.dateOfBirth, ServerEnv)
    IN  Splice([i \in 1..n |-> NewEntry(validation, ServerEnv.tz, i)])

\* initializeDataFile: on first run the file is created holding [], on a
\* later run the file of the earlier run is kept
Init ==
    /\ \E n \in {0, InitialFill} : store = Submitted(n) /\ clock = n
    /\ req = [s \in Slots |-> Idle]
    /\ lastResp = NoResp
    /\ posts = 0
    /\ faults = 0
    /\ call = NoCall
    /\ ret = NoRet
    /\ ClientAtRest

Next ==
    \E s \in Slots :
        \/ \E body \in Bodies : PostArrive(s, body) /\ UNCHANGED Client
        \/ \E ok \in BOOLEAN : PostRead(s, ok) /\ UNCHANGED Client
        \/ \E ok \in BOOLEAN : PostWrite(s, ok) /\ UNCHANGED Client
        \/ GetArrive(s) /\ UNCHANGED Client
        \/ \E ok \in BOOLEAN : GetRead(s, ok) /\ UNCHANGED Client

Spec == Init /\ [][Next]_vars

(***************************************************************************)
(* Calls of the two pure functions on their own: the arguments are drawn    *)
(* when the behaviour starts and one step applies the function.             *)
(***************************************************************************)
TZs == {0 - 5, 0, 9}
WallClocks == {[y |-> 2026, m |-> 11, d |-> 3], [y |-> 2024, m |-> 1, d |-> 1]}
Hours == {0, 12, 23}
Envs == {[tz |-> z, y |-> w.y, m |-> w.m, d |-> w.d, h |-> hh] :
            z \in TZs, w \in WallClocks, hh \in Hours}

RECURSIVE Strings(_)
\* every string over Alphabet of length n
Strings(n) ==
    IF n = 0 THEN {<<>>}
    ELSE {Append(t, c) : t \in Strings(n - 1), c \in Alphabet}

ShortStrings == UNION {Strings(n) : n \in 0..MaxShort}

\* n letters, with the character c at position k
Filled(n, k, c) == [i \in 1..n |-> IF i = k THEN c ELSE "a"]
LongStrings ==
    {Filled(n, k, c) : n \in (MaxNameLen - 1)..(MaxNameLen + 2),
                       k \in {1, MaxNameLen - 1}, c \in Alphabet}

AllNames ==
    {Undefined, Num(0), Num(42)} \cup {Str(t) : t \in ShortStrings \cup LongStrings}
FewNames == {Str(<<"Z", "'", "a">>), Str(<<"1">>)}

NearYears(env) ==
    {env.y - MaxAgeYears - 1, env.y - MaxAgeYears, env.y - MaxAgeYears + 1,
     env.y - 1, env.y, env.y + 1}
NearMonths(env) == {env.m, (env.m % 12) + 1, ((env.m + 10) % 12) + 1}
AllDobs(env) ==
    {DateStr(sp, yy, mm, dd) :
        sp \in {"-", "/"}, yy \in NearYears(env), mm \in NearMonths(env), dd \in 1..31}
FewDobs(env) ==
    {DateStr("-", env.y - 30, 6, 15), DateStr("-", env.y - 130, 6, 15),
     DateStr("/", env.y + 2, 6, 15), DateStr("-", env.y - 30, 2, 30),
     Str(<<"a">>), Str(<<>>), Num(42), Undefined}

ServerAtRest ==
    /\ store = <<>>
    /\ req = [s \in Slots |-> Idle]
    /\ lastResp = NoResp
    /\ clock = 0
    /\ posts = 0
    /\ faults = 0

Server == <<store, req, lastResp, clock, posts, faults>>

InitValidate ==
    /\ ServerAtRest
    /\ \E env \in Envs :
         \E pair \in (AllNames \X FewDobs(env)) \cup (FewNames \X AllDobs(env)) :
            call = [op |-> "validateInput", name |-> pair[1],
                    dateOfBirth |-> pair[2], env |-> env]
    /\ ret = NoRet
    /\ ClientAtRest

Validate ==
    /\ call.op = "validateInput" /\ ret.op = "none"
    /\ ret' = [NoRet EXCEPT !.op = "validateInput",
                  !.validation = validateInput(call.name, call.dateOfBirth, call.env)]
    /\ UNCHANGED <<Server, call, Client>>

SpecValidate == InitValidate /\ [][Validate]_vars

ZodiacYears == {2023, 2024}

InitZodiac ==
    /\ ServerAtRest
    /\ \E z \in TZs, sp \in {"-", "/"}, yy \in ZodiacYears, mm \in 1..12, dd \in 1..31 :
         /\ IsDate(DateStr(sp, yy, mm, dd))
         /\ call = [op |-> "calculateZodiacSign", name |-> Undefined,
                    dateOfBirth |-> DateStr(sp, yy, mm, dd),
                    env |-> [ServerEnv EXCEPT !.tz = z]]
    /\ ret = NoRet
    /\ ClientAtRest

Classify ==
    /\ call.op = "calculateZodiacSign" /\ ret.op = "none"
    /\ ret' = [NoRet EXCEPT !.op = "calculateZodiacSign",
                  !.sign = calculateZodiacSign(call.dateOfBirth, call.env.tz)]
    /\ UNCHANGED <<Server, call, Client>>

SpecZodiac == InitZodiac /\ [][Classify]_vars

(***************************************************************************)
(* The client against the server: one page, whose fetches are the          *)
(* requests the handlers serve.  A step is what runs between two awaits.    *)
(***************************************************************************)
\* a step of the page or of the network leaves the server alone
ServerIdles ==
    /\ lastResp' = NoResp
    /\ UNCHANGED <<store, req, clock, posts, faults, PureCall>>

\* the fetch r reached the server in slot s: it is answered at once or is
\* being worked on
Arrived(r, s) ==
    net' = [net EXCEPT ![r].slot = s,
                       ![r].st = IF lastResp'.kind = "none" THEN "atServer"
                                 ELSE "responded",
                       ![r].resp = lastResp']

\* the response the handler invocation in slot s sent goes to the fetch that
\* waits for it, if that fetch has not failed meanwhile
Routed(s) ==
    net' = [r \in Requests |->
               IF net[r].st = "atServer" /\ net[r].slot = s /\ lastResp'.kind # "none"
               THEN [net[r] EXCEPT !.st = "responded", !.resp = lastResp']
               ELSE net[r]]

\* response.ok
ResponseOk(resp) == resp.status \in 200..299

\* fetchRecentEntries after its awaits: setRecentEntries(data.entries || [])
\* when the response is ok, nothing but a log line otherwise
fetchRecentEntries(r) ==
    IF net[r].st = "responded" /\ ResponseOk(net[r].resp)
    THEN net[r].resp.entries
    ELSE client.recentEntries

\* handleInputChange: one input changes, a shown error is cleared
handleInputChange(field, value) ==
    /\ client.formData[field] # value
    /\ client' = [client EXCEPT !.formData[field] = value, !.error = ""]
    /\ UNCHANGED net
    /\ ServerIdles

\* handleSubmit up to `await fetch(...)`.  The button is disabled while
\* loading and the inputs are `required`.
handleSubmit ==
    /\ ~client.loading /\ client.pc = "idle"
    /\ Truthy(client.formData.name) /\ Truthy(client.formData.dateOfBirth)
    /\ posts < MaxPosts
    /\ client' = [client EXCEPT !.loading = TRUE, !.error = "", !.pc = "posting"]
    /\ net' = [net EXCEPT !["post"] =
                  [NoFetch EXCEPT !.st = "sending", !.body = client.formData]]
    /\ ServerIdles

\* the POST of handleSubmit reaches the server
PostSent(s) ==
    /\ net["post"].st = "sending"
    /\ PostArrive(s, net["post"].body)
    /\ Arrived("post", s)
    /\ UNCHANGED client

\* the GET of a fetchRecentEntries reaches the server
GetSent(r, s) ==
    /\ net[r].st = "sending"
    /\ GetArrive(s)
    /\ Arrived(r, s)
    /\ UNCHANGED client

\* a handler invocation goes on after its file operation
Handled(s, ok) ==
    /\ \/ PostRead(s, ok)
       \/ PostWrite(s, ok)
       \/ GetRead(s, ok)
    /\ Routed(s)
    /\ UNCHANGED client

\* the fetch promise rejects: the request or its response is lost
FetchRejects(r) ==
    /\ net[r].st \in {"sending", "atServer", "responded"}
    /\ MayFail
    /\ faults' = faults + 1
    /\ net' = [net EXCEPT ![r].st = "failed"]
    /\ lastResp' = NoResp
    /\ UNCHANGED <<client, store, req, clock, posts, PureCall>>

\* the fetchRecentEntries of the mount effect completes
MountFetched ==
    /\ net["mount"].st \in {"responded", "failed"}
    /\ client' = [client EXCEPT !.recentEntries = fetchRecentEntries("mount")]
    /\ net' = [net EXCEPT !["mount"] = NoFetch]
    /\ ServerIdles

\* variant: setLoading(false) is the last statement of the try block and of
\* its else branch, and there is no finally block
handleSubmitNoFinally ==
    /\ client.pc = "posting"
    /\ net["post"].st \in {"responded", "failed"}
    /\ LET resp == net["post"].resp
       IN  IF net["post"].st = "failed"
           THEN /\ client' = [client EXCEPT !.error = MsgNetworkError, !.pc = "idle"]
                /\ net' = [net EXCEPT !["post"] = NoFetch]
           ELSE IF ResponseOk(resp) /\ resp.success
           THEN /\ client' = [client EXCEPT !.result = resp.result,
                                 !.showSuccess = TRUE, !.pc = "refreshing"]
                /\ net' = [net EXCEPT !["post"].st = "handled",
                              !["refresh"] = [NoFetch EXCEPT !.st = "sending"]]
           ELSE /\ client' = [client EXCEPT
                                 !.error = IF resp.error # "" THEN resp.error
                                           ELSE MsgCalculateFailed,
                                 !.loading = FALSE, !.pc = "idle"]
                /\ net' = [net EXCEPT !["post"] = NoFetch]
    /\ ServerIdles

\* handleSubmit from the POST's outcome on: the catch block on a rejected
\* fetch; on success the result is shown and fetchRecentEntries is awaited;
\* on an error response its message is shown; the finally block
handleSubmitAnswered ==
    /\ client.pc = "posting"
    /\ net["post"].st \in {"responded", "failed"}
    /\ LET resp == net["post"].resp
       IN  IF net["post"].st = "failed"
           THEN /\ client' = [client EXCEPT !.error = MsgNetworkError,
                                 !.loading = FALSE, !.pc = "idle"]
                /\ net' = [net EXCEPT !["post"] = NoFetch]
           ELSE IF ResponseOk(resp) /\ resp.success
           THEN /\ client' = [client EXCEPT !.result = resp.result,
                                 !.showSuccess = TRUE, !.pc = "refreshing"]
                /\ net' = [net EXCEPT !["post"].st = "handled",
                              !["refresh"] = [NoFetch EXCEPT !.st = "sending"]]
           ELSE /\ client' = [client EXCEPT
                                 !.error = IF resp.error # "" THEN resp.error
                                           ELSE MsgCalculateFailed,
                                 !.loading = FALSE, !.pc = "idle"]
                /\ net' = [net EXCEPT !["post"] = NoFetch]
    /\ ServerIdles

\* the awaited fetchRecentEntries completes and handleSubmit runs to its end
\* in the same turn: the form is cleared, the timer is set, the finally block
handleSubmitRefreshed ==
    /\ client.pc = "refreshing"
    /\ net["refresh"].st \in {"responded", "failed"}
    /\ client' = [client EXCEPT !.recentEntries = fetchRecentEntries("refresh"),
                     !.formData = EmptyForm, !.timers = @ + 1,
                     !.loading = FALSE, !.pc = "idle"]
    /\ net' = [net EXCEPT !["post"] = NoFetch, !["refresh"] = NoFetch]
    /\ ServerIdles

\* a setTimeout callback: setShowSuccess(false)
TimerFires ==
    /\ client.timers > 0
    /\ client' = [client EXCEPT !.showSuccess = FALSE, !.timers = @ - 1]
    /\ UNCHANGED net
    /\ ServerIdles

\* the page is mounted: the effect has called fetchRecentEntries
InitClient ==
    /\ ServerAtRest
    /\ call = NoCall
    /\ ret = NoRet
    /\ client = ClientInitial
    /\ net = [r \in Requests |->
                 IF r = "mount" THEN [NoFetch EXCEPT !.st = "sending"] ELSE NoFetch]

\* what the user does
UserActs ==
    \/ \E value \in NameInputs : handleInputChange("name", value)
    \/ \E value \in DateInputs : handleInputChange("dateOfBirth", value)
    \/ handleSubmit

\* what happens without the user: requests arrive, handlers run, responses
\* are handled, timers fire
Progress ==
    \/ \E s \in Slots : PostSent(s)
    \/ \E s \in Slots, r \in {"mount", "refresh"} : GetSent(r, s)
    \/ \E s \in Slots, ok \in BOOLEAN : Handled(s, ok)
    \/ MountFetched
    \/ handleSubmitAnswered
    \/ handleSubmitRefreshed
    \/ TimerFires

NextClient ==
    \/ UserActs
    \/ Progress
    \/ \E r \in Requests : FetchRejects(r)

\* every fetch settles: the event loops of the page and of the server run
\* what is ready, and a request is answered or fails
SpecClient == InitClient /\ [][NextClient]_vars /\ WF_vars(Progress)

(***************************************************************************)
(* The properties.                                                         *)
(***************************************************************************)
Min(S) == CHOOSE x \in S : \A y \in S : x <= y

PostAnswered(status) == lastResp.kind = "POST" /\ lastResp.status = status

\* C1: every document written to the file, and every document a handler is
\* about to write, holds at most 100 entries.
StoreCapped ==
    /\ Len(store) <= MaxEntries
    /\ \A s \in Slots : Len(req[s].data) <= MaxEntries

\* C1, its case: an append to a full file was answered and evicted the oldest entry
StoreCappedWitness ==
    /\ PostAnswered(200)
    /\ Len(store) = MaxEntries
    /\ store[1].id > 1
    /\ store[MaxEntries] = lastResp.entry[1]

\* what one append may do to the file: the entries before the step are kept in
\* order, but for the oldest ones, dropped only as far as the count would pass 100
StepKeepsEntries ==
    \/ store' = store
    \/ /\ Len(store') >= 1
       /\ LET kept == SubSeq(store', 1, Len(store') - 1)
              dropped == Len(store) - Len(kept)
          IN  /\ dropped >= 0
              /\ kept = SubSeq(store, dropped + 1, Len(store))
              /\ dropped > 0 => Len(store) + 1 - dropped = MaxEntries

\* C2: across every step an entry of the file stays, unchanged and in order,
\* unless it is one of the oldest entries an append over the cap drops.  Stated
\* for the writes of requests that no other write overlapped, so that a lost
\* update between overlapping requests is not what decides it.
EntriesOnlyEvicted ==
    [][(\A s \in Slots : req[s].overlapped = {}) => StepKeepsEntries]_vars

\* C3: GET /api/entries answers with the last min(10, count) entries of the
\* file, the most recently appended first.
RecentIsLastTen ==
    lastResp.kind = "GET" =>
        LET n == IF Len(store) < RecentCount THEN Len(store) ELSE RecentCount
        IN  lastResp.entries = [i \in 1..n |-> store[Len(store) - i + 1]]

\* the months and days of the calendar, as the number month * 100 + day
ReferenceSign(month, day) ==
    LET k == month * 100 + day
    IN  IF k <= 119 THEN "Capricorn"
        ELSE IF k <= 218 THEN "Aquarius"
        ELSE IF k <= 320 THEN "Pisces"
        ELSE IF k <= 419 THEN "Aries"
        ELSE IF k <= 520 THEN "Taurus"
        ELSE IF k <= 620 THEN "Gemini"
        ELSE IF k <= 722 THEN "Cancer"
        ELSE IF k <= 822 THEN "Leo"
        ELSE IF k <= 922 THEN "Virgo"
        ELSE IF k <= 1022 THEN "Libra"
        ELSE IF k <= 1121 THEN "Scorpio"
        ELSE IF k <= 1221 THEN "Sagittarius"
        ELSE "Capricorn"

\* the (month, day) pair calculateZodiacSign tests the ranges against
ClassifiedDay == LocalMonthDay(call.dateOfBirth, call.env.tz)

\* C4: for every calendar day exactly one of the twelve ranges matches the
\* (month, day) pair, the sign returned is the one the reference boundaries
\* give, and 'Unknown' is never returned.
ZodiacPartition ==
    ret.op = "calculateZodiacSign" =>
        /\ Cardinality({i \in 1..Len(zodiacSigns) :
               RangeMatches(zodiacSigns[i], ClassifiedDay[1], ClassifiedDay[2])}) = 1
        /\ ret.sign = ReferenceSign(ClassifiedDay[1], ClassifiedDay[2])
        /\ ret.sign # "Unknown"

\* C4, its case: February 29 was classified
ZodiacPartitionWitness ==
    /\ ret.op = "calculateZodiacSign"
    /\ ClassifiedDay = <<2, 29>>
    /\ ret.sign = "Pisces"

\* C5: a request during which a read or a write of the file failed is answered
\* with 500, never with a success body.
IoFailureIs500 ==
    lastResp.ioFailed => lastResp.status = 500 /\ ~lastResp.success

(***************************************************************************)
(* The rules of the validator as the specification words them.             *)
(***************************************************************************)
NonEmptyString(v) == v.t = "string" /\ (v.kind = "ymd" \/ v.s # <<>>)
Trimmed(v) == Trim(v.s)

\* the name rules an input violates, as their messages; the character rule as
\* the regular expression of the code has it (white space is in the class)
NameViolations(name) ==
    {msg \in NameMessages :
        \/ msg = MsgNameRequired /\ ~NonEmptyString(name)
        \/ msg = MsgNameShort /\ NonEmptyString(name)
               /\ Len(Trimmed(name)) < MinNameLen
        \/ msg = MsgNameLong /\ NonEmptyString(name)
               /\ Len(Trimmed(name)) > MaxNameLen
        \/ msg = MsgNameChars /\ NonEmptyString(name)
               /\ \E i \in 1..Len(Trimmed(name)) : ~NameClass(Trimmed(name)[i])}

NameRuleOrder == <<MsgNameRequired, MsgNameShort, MsgNameLong, MsgNameChars>>

\* the message of the first rule of `order` that is in `violated`, if any
FirstViolation(order, violated) ==
    LET hit == {i \in 1..Len(order) : order[i] \in violated}
    IN  IF hit = {} THEN <<>> ELSE <<order[Min(hit)]>>

Returned == ret.op = "validateInput" /\ ~ret.validation.threw

BornOn(dob) == DaysFromCivil(dob.y, dob.m, dob.d)
CurrentDay(env) == DaysFromCivil(env.y, env.m, env.d)
OldestDay(env) == DaysFromCivil(env.y - MaxAgeYears, env.m, env.d)

\* the name rules as the specification words them: a non-empty string of
\* trimmed length 2 to 50 made of letters, spaces, hyphens and apostrophes
GoodName(name) ==
    /\ NonEmptyString(name)
    /\ Len(Trimmed(name)) \in MinNameLen..MaxNameLen
    /\ \A i \in 1..Len(Trimmed(name)) :
           Trimmed(name)[i] \in Letters \cup {" ", "-", "'"}

GoodDate(dob, env) ==
    /\ NonEmptyString(dob)
    /\ IsDate(dob)
    /\ BornOn(dob) \in OldestDay(env)..CurrentDay(env)

FailsValidation(body) ==
    ~GoodName(body.name) \/ ~GoodDate(body.dateOfBirth, ServerEnv)

\* C7: a POST whose input fails validation is answered 400 "Validation
\* failed" with the non-empty error list and leaves the file as it is; the
\* file changes only by a request whose input passed validation.
ValidationFailureIs400 ==
    /\ [](lastResp.kind = "POST" /\ FailsValidation(lastResp.body)
            => /\ lastResp.status = 400
               /\ lastResp.error = "Validation failed"
               /\ lastResp.details # <<>>)
    /\ [][/\ lastResp'.kind = "POST" /\ FailsValidation(lastResp'.body)
                => store' = store
          /\ store' # store
                => PostAnswered(200)' /\ ~FailsValidation(lastResp'.body)]_vars

\* the request just answered got a success response and has its entry in the
\* file, and no request that completed between its read and its write has
LastWriterWins ==
    PostAnswered(200) =>
        /\ lastResp.entry[1] \in Range_(store)
        /\ \A o \in lastResp.overlapped : o.entry \notin Range_(store)

\* a request that read the file and that no other request overlapped adds its
\* entry next to the entry of the request before it
SequentialKeepsBoth ==
    \A s \in Slots :
        (/\ req[s].pc = "write" /\ req[s].overlapped = {} /\ ~req[s].ioFailed
         /\ PostAnswered(200)' /\ lastResp'.slot = s)
        => /\ req[s].entry[1] \in Range_(store')
           /\ store # <<>> => store[Len(store)] \in Range_(store')

\* C8: of two valid POSTs that both read the file before either wrote it, both
\* are answered with success and the file keeps only the entry of the one that
\* wrote last; of two that did not overlap, the file keeps both entries.
LostUpdateOnOverlap == []LastWriterWins /\ [][SequentialKeepsBoth]_vars

\* C8, its case: two overlapping POSTs were both answered with success and the
\* entry of the first writer is gone
LostUpdateWitness ==
    /\ PostAnswered(200) /\ ~lastResp.ioFailed
    /\ lastResp.entry[1] \in Range_(store)
    /\ \E o \in lastResp.overlapped :
           o.status = 200 /\ o.entry \notin Range_(store)

\* a date of birth well inside the accepted range, whatever the zone
DobWellInside ==
    /\ IsDate(call.dateOfBirth)
    /\ call.dateOfBirth.y \in (call.env.y - MaxAgeYears + 1)..(call.env.y - 1)

\* C9: with a valid date of birth, validateInput returns isValid = false and a
\* non-empty errors list for every name that breaks a name rule, and isValid =
\* true for every name that keeps them all.
NameRulesDecide ==
    ret.op = "validateInput" /\ DobWellInside =>
        /\ ~ret.validation.threw
        /\ ret.validation.isValid <=> GoodName(call.name)
        /\ ~GoodName(call.name) => ret.validation.errors # <<>>

\* C10: with a valid name, a date after the current date is rejected as in the
\* future, a date before the same day 120 years ago as too old, and every date
\* between the two, both included, is accepted.
DateBoundsInclusive ==
    ret.op = "validateInput" /\ GoodName(call.name) /\ IsDate(call.dateOfBirth) =>
        /\ ~ret.validation.threw
        /\ IF BornOn(call.dateOfBirth) > CurrentDay(call.env)
           THEN ret.validation.errors = <<MsgDateFuture>>
           ELSE IF BornOn(call.dateOfBirth) < OldestDay(call.env)
           THEN ret.validation.errors = <<MsgDateOld>>
           ELSE ret.validation.isValid

\* a name as the data model words it: 2 to 50 characters, each a letter, a
\* space, a hyphen or an apostrophe
DisplayName(chars) ==
    /\ Len(chars) \in MinNameLen..MaxNameLen
    /\ \A i \in 1..Len(chars) : chars[i] \in Letters \cup {" ", "-", "'"}

\* C11: the name of every persisted entry is a string of 2 to 50 letters,
\* spaces, hyphens and apostrophes.  Stated at the states in which a
\* submission has just been answered with success.
StoredNamesAreDisplayNames ==
    PostAnswered(200) => \A i \in 1..Len(store) : DisplayName(store[i].name)

\* C12: the submit control is disabled (loading) for as long as handleSubmit
\* is suspended at one of its awaits, and whenever loading is set it is
\* cleared again later, whatever the outcome of the submission.
SubmitDisabledUntilSettled ==
    /\ [](client.pc # "idle" => client.loading)
    /\ (client.loading ~> ~client.loading)

\* C12, its cases: a submission ended with a rejected fetch, and the control
\* is enabled again with the connectivity message shown
SubmitSettledWitness ==
    /\ client.pc = "idle" /\ ~client.loading
    /\ client.error = MsgNetworkError

\* C13: when handleSubmit has finished handling a success response, the list
\* recentEntries is what a GET /api/entries taken after the new entry was
\* persisted returned, so that the new entry is its first element.  Stated
\* for the submissions whose refreshing GET was answered with an ok response,
\* so that a lost request is not what decides it.
RefreshShowsNewEntry ==
    [][(/\ client.pc = "refreshing" /\ client'.pc = "idle"
        /\ net["refresh"].st = "responded"
        /\ ResponseOk(net["refresh"].resp))
       => /\ client'.recentEntries = net["refresh"].resp.entries
          /\ client'.recentEntries # <<>>
          /\ Head(client'.recentEntries) = net["post"].resp.entry[1]]_vars

====
